---- MODULE Spec2Model ----
(***************************************************************************)
(* Model of ZillowFSBOScraper (src/zillow_scrape.py) driven by main():     *)
(* the browser session, one call of search_fsbo_listings after another on  *)
(* the same scraper object, the page loop, the page extractor and the      *)
(* next-page strategies.                                                   *)
(*                                                                         *)
(* The browser and the site are the environment: every browser call may    *)
(* succeed or raise, and every page may hold any sequence of cards.        *)
(* driver.quit() is taken not to raise (Selenium's Chrome driver swallows  *)
(* the errors of quit), and a command sent to a driver that was quit       *)
(* always raises.                                                          *)
(***************************************************************************)
EXTENDS Integers, Sequences, FiniteSets, TLC

\* ---- bounds of the model ----
MaxPages == 2        \* largest max_pages a caller passes
MaxCards == 2        \* most cards on one page
MaxButtons == 2      \* most pagination items the fallback selector finds
MaxWhole == 2        \* most digits of a whole number in a details text
MaxGroups == 1       \* most ",ddd" groups of a square footage
MaxProps == 2        \* most properties get_properties returns
MaxPrice == 1        \* highest list price

\* ---- program constants ----
NumLocations == 3    \* len(locations) in main
NumSelectors == 4    \* len(popup_selectors) in handle_popups

VARIABLES
    driver,          \* self.driver: "none" (None), "active", "quit" (object whose quit() ran)
    listings,        \* self.listings
    pc,              \* position of main / search_fsbo_listings
    page,            \* loop variable of the page loop (0: not bound)
    max_pages,       \* argument of the current call
    run,             \* number of search_fsbo_listings calls made so far
    all_listings,    \* main's all_listings
    ret,             \* value returned by the last finished call
    err,             \* the current call went through the except clause
    brokeOn,         \* why the current call left the loop through break ("none": it did not)
    closeCalls,      \* close_browser invocations of the current call
    quitCalls,       \* driver.quit() invocations on the driver object
    waits,           \* load waits of the current call
    parses,          \* parse_listings_page calls of the current call
    advances,        \* go_to_next_page calls of the current call
    actsAfterClose,  \* browser calls of the current call made after close_browser
    lastCall,        \* last browser call: its name and the session state it was issued on
    sessionRun,      \* the call that started the browser (0: never started)
    lastWait,        \* outcome of the load wait of the page at hand
    lastPage,        \* the page just parsed: the cards found and what became of them
    runStartLen,     \* Len(self.listings) when the current call began
    created,         \* records created so far by the page extractor
    popupSweeps,     \* handle_popups calls of the current call
    popupVisited,    \* selectors the last handle_popups call went through, in order
    navigated,       \* driver.get of the current call: "no" (not issued), "ok", "failed"
    lastAdvance,     \* the go_to_next_page call just made (forgotten at the next step)
    details,         \* text of a property-card-details element
    parsed,          \* fields parse_listings_page takes from that text
    mpc,             \* position of main of mls.py
    flags,           \* its command line and environment
    properties,      \* what get_properties returned
    processed,       \* processed_properties: the price of each record
    hfCalls,         \* calls of analyze_properties_with_huggingface
    hfRequests,      \* HTTP requests sent to the Hugging Face API
    hfResult         \* outcome of the analysis call

vars == <<driver, listings, pc, page, max_pages, run, all_listings, ret, err,
          brokeOn, closeCalls, quitCalls, waits, parses, advances,
          actsAfterClose, lastCall, sessionRun, lastWait, lastPage,
          runStartLen, created, popupSweeps, popupVisited, navigated,
          lastAdvance, details, parsed, mpc, flags, properties, processed,
          hfCalls, hfRequests, hfResult>>

\* variables of the details parser and of mls.py, which the scraper leaves alone
dvars == <<details, parsed>>
mvars == <<mpc, flags, properties, processed, hfCalls, hfRequests, hfResult>>
\* variables of the scraper and of main of zillow_scrape.py
zvars == <<driver, listings, pc, page, max_pages, run, all_listings, ret, err,
           brokeOn, closeCalls, quitCalls, waits, parses, advances,
           actsAfterClose, lastCall, sessionRun, lastWait, lastPage,
           runStartLen, created, popupSweeps, popupVisited, navigated,
           lastAdvance>>

\* variables of the run's bookkeeping that a step leaves alone
counters == <<waits, parses, advances, popupSweeps>>

\* ---- the environment's inputs ----
\* a card: it has the badge element, it has the matching text, at least one field can
\* be extracted from it, its processing raises. The loop ends at a card that raises
\* whatever the card holds, so the failing cards are drawn with one shape only.
Card == {c \in [badge : BOOLEAN, text : BOOLEAN, fields : BOOLEAN, raises : BOOLEAN] :
            c.raises => (c.badge /\ ~c.text /\ c.fields)}
Pages == UNION {[1..n -> Card] : n \in 0..MaxCards}
ButtonRows == UNION {[1..n -> BOOLEAN] : n \in 0..MaxButtons}
PrimaryOutcomes == {"enabled", "disabled", "missing", "find_error", "click_error"}
FallbackOutcomes == {"ok", "find_error", "click_error"}

PopupOutcomes == {"none", "hidden", "clicked", "error"}

NoCall == [op |-> "none", on |-> "none"]
NoAdvance == [primary |-> "none", tried |-> FALSE, eligible |-> FALSE, fb |-> "none",
              result |-> "none"]
NoPage == [eligible |-> 0, emitted |-> 0, plain |-> 0, src |-> FALSE,
           primaryEmpty |-> FALSE, from |-> "none", nCards |-> 0]
\* a field that is not set is the empty text (no pattern of lines 175-185 matches it)
Unset == <<>>
NoDetails == [beds |-> Unset, baths |-> Unset, sqft |-> Unset, sqftDigits |-> Unset,
              raw |-> <<>>]
Unparsed == [done |-> FALSE, beds |-> Unset, baths |-> Unset, sqft |-> Unset]
NoFlags == [metadata |-> FALSE, mls |-> "none", skip_ai |-> FALSE, filter |-> FALSE,
            apikey |-> "none", env |-> "none"]
NoResult == [status |-> "none", body |-> "none"]

\* a browser call issued on the current value of self.driver
Issue(op) ==
    /\ lastCall' = [op |-> op, on |-> driver]
    /\ actsAfterClose' = IF closeCalls > 0 THEN actsAfterClose + 1 ELSE actsAfterClose

ScraperInit ==
    /\ driver = "none"
    /\ listings = <<>>
    /\ pc = "idle"
    /\ page = 0
    /\ max_pages = 0
    /\ run = 0
    /\ all_listings = <<>>
    /\ ret = <<>>
    /\ err = FALSE
    /\ brokeOn = "none"
    /\ closeCalls = 0
    /\ quitCalls = 0
    /\ waits = 0
    /\ parses = 0
    /\ advances = 0
    /\ actsAfterClose = 0
    /\ lastCall = NoCall
    /\ sessionRun = 0
    /\ lastWait = "none"
    /\ lastPage = NoPage
    /\ runStartLen = 0
    /\ created = 0
    /\ popupSweeps = 0
    /\ popupVisited = <<>>
    /\ navigated = "no"
    /\ lastAdvance = NoAdvance

\* the details parser and mls.py at rest
DetailsIdle ==
    /\ details = NoDetails
    /\ parsed = Unparsed

MlsIdle ==
    /\ mpc = "off"
    /\ flags = NoFlags
    /\ properties = <<>>
    /\ processed = <<>>
    /\ hfCalls = 0
    /\ hfRequests = 0
    /\ hfResult = NoResult

\* ZillowFSBOScraper.__init__ and the first lines of main
Init == ScraperInit /\ DetailsIdle /\ MlsIdle

\* main, line 228: scraper.search_fsbo_listings(location, max_pages=n)
Call ==
    /\ pc = "idle"
    /\ run < NumLocations
    /\ \E n \in 0..MaxPages : max_pages' = n
    /\ run' = run + 1
    /\ pc' = "start"
    /\ page' = 0
    /\ err' = FALSE
    /\ brokeOn' = "none"
    /\ closeCalls' = 0
    /\ waits' = 0
    /\ parses' = 0
    /\ advances' = 0
    /\ popupSweeps' = 0
    /\ actsAfterClose' = 0
    /\ lastCall' = NoCall
    /\ runStartLen' = Len(listings)
    /\ UNCHANGED <<driver, listings, all_listings, ret, quitCalls, sessionRun, created>>
    /\ popupVisited' = <<>>
    /\ navigated' = "no"
    /\ lastAdvance' = NoAdvance
    /\ lastWait' = "none"
    /\ lastPage' = NoPage
    /\ UNCHANGED <<dvars, mvars>>

\* lines 47-48 and start_browser: the browser is started only when self.driver is None
Begin ==
    /\ pc = "start"
    /\ IF driver = "none"
       THEN \E o \in {"ok", "chrome_error", "window_error"} :
              /\ driver' = IF o = "chrome_error" THEN "none" ELSE "active"
              /\ sessionRun' = IF o = "chrome_error" THEN sessionRun ELSE run
              /\ pc' = IF o = "ok" THEN "get" ELSE "except"
              /\ lastCall' = [op |-> "start", on |-> driver']
              /\ UNCHANGED actsAfterClose
       ELSE /\ pc' = "get"
            /\ UNCHANGED <<driver, sessionRun, lastCall, actsAfterClose>>
    /\ UNCHANGED <<listings, page, max_pages, run, all_listings, ret, err, brokeOn,
                   closeCalls, quitCalls, counters, lastWait, lastPage,
                   runStartLen, created>>
    /\ UNCHANGED <<popupVisited, navigated, lastAdvance>>
    /\ UNCHANGED <<dvars, mvars>>

\* line 55: self.driver.get(fsbo_url)
Navigate ==
    /\ pc = "get"
    /\ Issue("get")
    /\ \E ok \in BOOLEAN :
         pc' = IF driver = "active" /\ ok THEN "popups" ELSE "except"
    /\ UNCHANGED <<driver, listings, page, max_pages, run, all_listings, ret, err,
                   brokeOn, closeCalls, quitCalls, counters, sessionRun, lastWait,
                   lastPage, runStartLen, created>>
    /\ navigated' = IF pc' = "popups" THEN "ok" ELSE "failed"
    /\ UNCHANGED <<popupVisited, lastAdvance>>
    /\ UNCHANGED <<dvars, mvars>>

\* lines 104-111 without the inner try: the first failure ends the sweep
OnPopupErrorAbort(i) == NumSelectors + 1

\* lines 110-111: a failure of the lookup, of the visibility test or of the click is
\* caught and the loop continues with the selector after selector i
OnPopupError(i) == i + 1

\* handle_popups, lines 103-111: the selectors are visited in their order; outs[i] is
\* what the browser does for selector i. The result is the selectors visited.
RECURSIVE SweepPopups(_, _, _)
SweepPopups(outs, i, visited) ==
    IF i > NumSelectors THEN visited
    ELSE SweepPopups(outs,
                     IF outs[i] = "error" THEN OnPopupError(i) ELSE i + 1,
                     Append(visited, i))

\* lines 56-59, handle_popups (lines 91-113) and the loop header of line 62: every
\* exception of the sweep is caught inside handle_popups
HandlePopups ==
    /\ pc = "popups"
    /\ Issue("popups")
    /\ popupSweeps' = popupSweeps + 1
    /\ \E outs \in [1..NumSelectors -> PopupOutcomes] :
         popupVisited' = SweepPopups(outs, 1, <<>>)
    /\ IF max_pages >= 1
       THEN pc' = "wait" /\ page' = 1
       ELSE pc' = "return" /\ page' = page
    /\ UNCHANGED <<driver, listings, max_pages, run, all_listings, ret, err, brokeOn,
                   closeCalls, quitCalls, waits, parses, advances, sessionRun,
                   lastWait, lastPage, runStartLen, created>>
    /\ UNCHANGED <<navigated, lastAdvance>>
    /\ UNCHANGED <<dvars, mvars>>

\* lines 66-71 with the except clause turned into a fatal error
WaitPcFatal(o) == IF o = "found" THEN "parse" ELSE "except"

\* lines 66-71: TimeoutException is caught and the run goes on to parse the page;
\* any other exception of the wait leaves the loop for the except clause of line 84
WaitPc(o) == IF o \in {"found", "timeout"} THEN "parse" ELSE "except"

\* lines 66-71: WebDriverWait(self.driver, 10).until(...)
WaitForListings ==
    /\ pc = "wait"
    /\ Issue("wait")
    /\ \E o \in {"found", "timeout", "error"} :
         /\ lastWait' = o
         /\ pc' = WaitPc(o)
    /\ waits' = waits + 1
    /\ UNCHANGED <<driver, listings, page, max_pages, run, all_listings, ret, err,
                   brokeOn, closeCalls, quitCalls, parses, advances, popupSweeps,
                   sessionRun, lastPage, runStartLen, created>>
    /\ lastAdvance' = NoAdvance
    /\ UNCHANGED <<popupVisited, navigated>>
    /\ UNCHANGED <<dvars, mvars>>

\* line 158 with the test dropped
IsFsboAlways(c) == TRUE

\* line 158: fsbo_badge or for_sale_by_owner_text
IsFsbo(c) == c.badge \/ c.text

\* lines 151-202: the loop over the cards. An exception in the processing of a card
\* leaves the loop (the try of line 142 encloses the whole loop); a card gives a
\* record if it is classified FSBO and at least one field was extracted (line 199)
\* (a record keeps whether its card had an FSBO signal, the call and page that found
\* it and its serial number among the records created)
RECURSIVE ParseCards(_, _, _, _, _)
ParseCards(cards, acc, r, p, n) ==
    IF cards = <<>> THEN acc
    ELSE LET c == Head(cards) IN
         IF c.raises THEN acc
         ELSE IF IsFsbo(c) /\ c.fields
              THEN ParseCards(Tail(cards),
                              Append(acc, [fsbo |-> (c.badge \/ c.text), run |-> r,
                                           page |-> p, id |-> n + Len(acc) + 1]),
                              r, p, n)
              ELSE ParseCards(Tail(cards), acc, r, p, n)

\* lines 147-149 without the alternate selector
SelectCardsPrimaryOnly(primary, alternate) == primary

\* lines 147-149: the alternate selector is used when the primary one finds no card
SelectCards(primary, alternate) ==
    IF primary = <<>> THEN alternate ELSE primary

\* what the alternate selector would find on a page: anything when the primary
\* selector finds nothing, nothing or one FSBO card when it finds cards
AltPages(primary) ==
    IF primary = <<>> THEN Pages
    ELSE {<<>>, <<[badge |-> TRUE, text |-> FALSE, fields |-> TRUE, raises |-> FALSE]>>}

\* the selector the cards of the loop came from
CardsFrom(cards, primary, alternate) ==
    IF primary # <<>> /\ cards = primary THEN "primary"
    ELSE IF cards = alternate THEN "alternate" ELSE "other"

\* number of cards of a page that carry an FSBO signal, have a field and do not fail
Eligible(cards) ==
    Cardinality({i \in 1..Len(cards) :
        /\ cards[i].badge \/ cards[i].text
        /\ cards[i].fields
        /\ ~cards[i].raises})

\* number of cards of a page without any FSBO signal that the loop went through
Plain(cards) ==
    Cardinality({i \in 1..Len(cards) :
        /\ ~cards[i].badge /\ ~cards[i].text
        /\ cards[i].fields
        /\ \A j \in 1..i : ~cards[j].raises})

\* line 77 with the comparison widened
LoopNextOffByOne(p, n) == IF p <= n THEN "advance" ELSE "return"

\* lines 62 and 77: after the parse of page p, advance if p < max_pages, otherwise
\* the loop is exhausted and line 82 returns
LoopNext(p, n) == IF p < n THEN "advance" ELSE "return"

\* parse_listings_page keeping only the records of the page just parsed
ParsePageReplace ==
    /\ pc = "parse"
    /\ Issue("page_source")
    /\ \E primary \in Pages :
         LET new == ParseCards(primary, <<>>, run, page, created)
         IN /\ listings' = new
            /\ created' = created + Len(new)
            /\ lastPage' = [eligible |-> Eligible(primary), emitted |-> Len(new),
                           plain |-> Plain(primary), src |-> TRUE,
                           primaryEmpty |-> (primary = <<>>), from |-> "primary",
                           nCards |-> Len(primary)]
    /\ parses' = parses + 1
    /\ pc' = LoopNext(page, max_pages)
    /\ UNCHANGED <<driver, page, max_pages, run, all_listings, ret, err, brokeOn,
                   closeCalls, quitCalls, waits, advances, popupSweeps, sessionRun,
                   lastWait, runStartLen>>
    /\ UNCHANGED <<popupVisited, navigated, lastAdvance>>
    /\ UNCHANGED <<dvars, mvars>>

\* parse_listings_page, lines 140-205, and the test of line 77
ParsePage ==
    /\ pc = "parse"
    /\ Issue("page_source")
    /\ \E srcOk \in BOOLEAN :
       \E primary \in Pages :
       \E alternate \in (IF srcOk THEN AltPages(primary) ELSE {<<>>}) :
         /\ srcOk \/ primary = <<>>
         /\ LET cards == SelectCards(primary, alternate)
                new == ParseCards(cards, <<>>, run, page, created)
            IN /\ listings' = listings \o new
               /\ created' = created + Len(new)
               /\ lastPage' = [eligible |-> Eligible(cards), emitted |-> Len(new),
                              plain |-> Plain(cards), src |-> srcOk,
                              primaryEmpty |-> (srcOk /\ primary = <<>>),
                              from |-> IF srcOk
                                       THEN CardsFrom(cards, primary, alternate)
                                       ELSE "none",
                              nCards |-> Len(cards)]
    /\ parses' = parses + 1
    /\ pc' = LoopNext(page, max_pages)
    /\ UNCHANGED <<driver, page, max_pages, run, all_listings, ret, err, brokeOn,
                   closeCalls, quitCalls, waits, advances, popupSweeps, sessionRun,
                   lastWait, runStartLen>>
    /\ UNCHANGED <<popupVisited, navigated, lastAdvance>>
    /\ UNCHANGED <<dvars, mvars>>

\* lines 127-138: the fallback strategy. The control after the first item marked
\* active that has a successor is clicked; every exception gives False
Fallback(buttons, fb) ==
    IF fb = "find_error" THEN "false"
    ELSE IF \E i \in 1..Len(buttons) : buttons[i] /\ i < Len(buttons)
         THEN (IF fb = "ok" THEN "true" ELSE "false")
         ELSE "false"

\* the pagination items hold an item marked active that has a successor
HasSuccessor(buttons) ==
    \E i \in 1..Len(buttons) : buttons[i] /\ i < Len(buttons)

\* line 125 widened to a control that is present but not enabled
TriesFallbackNotEnabled(primary) == primary \in {"missing", "disabled"}

\* line 125: the fallback runs in the except NoSuchElementException clause only,
\* that is when the labeled control is missing
TriesFallback(primary) == primary = "missing"

\* go_to_next_page, lines 115-138: "true", "false" or "raise"
GoToNextPage(primary, buttons, fb) ==
    IF TriesFallback(primary) THEN Fallback(buttons, fb)
    ELSE CASE primary = "enabled"     -> "true"
           [] primary = "disabled"    -> "false"
           [] primary = "missing"     -> "raise"
           [] primary = "find_error"  -> "raise"
           [] primary = "click_error" -> "raise"

\* lines 78-80 without the break
AfterAdvanceNoBreak(r) ==
    IF r = "raise" THEN "except" ELSE "wait"

\* lines 78-80 followed by a new popup sweep on the page reached
AfterAdvanceResweep(r) ==
    IF r = "true" THEN "popups" ELSE IF r = "false" THEN "return" ELSE "except"

\* lines 78-80: a false result leaves the loop through break, a true one goes on
\* with the next page, an exception reaches the except clause of line 84
AfterAdvance(r) ==
    IF r = "true" THEN "wait" ELSE IF r = "false" THEN "return" ELSE "except"

\* lines 77-80: if not self.go_to_next_page(): break
Advance ==
    /\ pc = "advance"
    /\ Issue("next")
    /\ \E primary \in PrimaryOutcomes :
       \E buttons \in ButtonRows :
       \E fb \in FallbackOutcomes :
         LET r == GoToNextPage(primary, buttons, fb) IN
           /\ lastAdvance' = [primary |-> primary, tried |-> TriesFallback(primary),
                              eligible |-> HasSuccessor(buttons), fb |-> fb,
                              result |-> r]
           /\ pc' = AfterAdvance(r)
           /\ page' = IF pc' = "wait" THEN page + 1 ELSE page
           /\ brokeOn' = IF r = "false" THEN primary ELSE "none"
    /\ advances' = advances + 1
    /\ UNCHANGED <<driver, listings, max_pages, run, all_listings, ret, err,
                   closeCalls, quitCalls, waits, parses, popupSweeps, sessionRun,
                   runStartLen, created>>
    /\ UNCHANGED <<popupVisited, navigated>>
    /\ lastWait' = "none"
    /\ lastPage' = NoPage
    /\ UNCHANGED <<dvars, mvars>>

\* line 82: return self.listings
Return ==
    /\ pc = "return"
    /\ ret' = listings
    /\ pc' = "finally"
    /\ UNCHANGED <<driver, listings, page, max_pages, run, all_listings, err, brokeOn,
                   closeCalls, quitCalls, counters, actsAfterClose, lastCall,
                   sessionRun, runStartLen, created>>
    /\ lastAdvance' = NoAdvance
    /\ UNCHANGED <<popupVisited, navigated>>
    /\ lastWait' = "none"
    /\ lastPage' = NoPage
    /\ UNCHANGED <<dvars, mvars>>

\* lines 84-86 returning a fresh list
ExceptHandlerEmpty ==
    /\ pc = "except"
    /\ err' = TRUE
    /\ ret' = <<>>
    /\ pc' = "finally"
    /\ UNCHANGED <<driver, listings, page, max_pages, run, all_listings, brokeOn,
                   closeCalls, quitCalls, counters, actsAfterClose, lastCall,
                   sessionRun, lastWait, lastPage, runStartLen, created>>
    /\ lastAdvance' = NoAdvance
    /\ UNCHANGED <<popupVisited, navigated>>
    /\ UNCHANGED <<dvars, mvars>>

\* lines 84-86 starting the call again instead of returning
ExceptHandlerRetry ==
    /\ pc = "except"
    /\ err' = TRUE
    /\ pc' = "start"
    /\ UNCHANGED <<driver, listings, page, max_pages, run, all_listings, ret, brokeOn,
                   closeCalls, quitCalls, counters, actsAfterClose, lastCall,
                   sessionRun, lastWait, lastPage, runStartLen, created>>
    /\ lastAdvance' = NoAdvance
    /\ UNCHANGED <<popupVisited, navigated>>
    /\ UNCHANGED <<dvars, mvars>>

\* lines 84-86: the exception is caught and self.listings is returned
ExceptHandler ==
    /\ pc = "except"
    /\ err' = TRUE
    /\ ret' = listings
    /\ pc' = "finally"
    /\ UNCHANGED <<driver, listings, page, max_pages, run, all_listings, brokeOn,
                   closeCalls, quitCalls, counters, actsAfterClose, lastCall,
                   sessionRun, lastWait, lastPage, runStartLen, created>>
    /\ lastAdvance' = NoAdvance
    /\ UNCHANGED <<popupVisited, navigated>>
    /\ UNCHANGED <<dvars, mvars>>

\* lines 87-89 closing only after a normal return
FinallyOnSuccessOnly ==
    /\ pc = "finally"
    /\ closeCalls' = IF err THEN closeCalls ELSE closeCalls + 1
    /\ IF driver # "none" /\ ~err
       THEN /\ lastCall' = [op |-> "quit", on |-> driver]
            /\ quitCalls' = quitCalls + 1
            /\ driver' = "quit"
       ELSE UNCHANGED <<lastCall, quitCalls, driver>>
    /\ pc' = "done"
    /\ UNCHANGED <<listings, page, max_pages, run, all_listings, ret, err, brokeOn,
                   counters, actsAfterClose, sessionRun, lastWait, lastPage,
                   runStartLen, created>>
    /\ UNCHANGED <<popupVisited, navigated, lastAdvance>>
    /\ UNCHANGED <<dvars, mvars>>

\* lines 87-89 and close_browser, lines 35-38: quit() is called whenever self.driver
\* is set; self.driver is left as it is
Finally ==
    /\ pc = "finally"
    /\ closeCalls' = closeCalls + 1
    /\ IF driver # "none"
       THEN /\ lastCall' = [op |-> "quit", on |-> driver]
            /\ quitCalls' = quitCalls + 1
            /\ driver' = "quit"
       ELSE UNCHANGED <<lastCall, quitCalls, driver>>
    /\ pc' = "done"
    /\ UNCHANGED <<listings, page, max_pages, run, all_listings, ret, err, brokeOn,
                   counters, actsAfterClose, sessionRun, lastWait, lastPage,
                   runStartLen, created>>
    /\ UNCHANGED <<popupVisited, navigated, lastAdvance>>
    /\ UNCHANGED <<dvars, mvars>>

\* main, line 229: all_listings.extend(listings)
Extend ==
    /\ pc = "done"
    /\ all_listings' = all_listings \o ret
    /\ pc' = "idle"
    /\ UNCHANGED <<driver, listings, page, max_pages, run, ret, err, brokeOn,
                   closeCalls, quitCalls, counters, actsAfterClose, lastCall,
                   sessionRun, lastWait, lastPage, runStartLen, created>>
    /\ UNCHANGED <<popupVisited, navigated, lastAdvance>>
    /\ UNCHANGED <<dvars, mvars>>

\* main, lines 233-238: the loop over the locations is over
Export ==
    /\ pc = "idle"
    /\ run = NumLocations
    /\ pc' = "exit"
    /\ UNCHANGED <<driver, listings, page, max_pages, run, all_listings, ret, err,
                   brokeOn, closeCalls, quitCalls, counters, actsAfterClose, lastCall,
                   sessionRun, lastWait, lastPage, runStartLen, created>>
    /\ UNCHANGED <<popupVisited, navigated, lastAdvance>>
    /\ UNCHANGED <<dvars, mvars>>

\* ---- the details text, lines 169-187 ----
\* texts are sequences of one-character strings
DigitPool == {"0", "5"}
IsDigit(c) == c \in {"0", "1", "2", "3", "4", "5", "6", "7", "8", "9"}
IsSpace(c) == c = " "

Min(S) == CHOOSE x \in S : \A y \in S : x <= y
Max(S) == CHOOSE x \in S : \A y \in S : y <= x

\* str.strip() of line 172: the text without its leading and trailing white space
Strip(t) ==
    LET solid == {i \in 1..Len(t) : ~IsSpace(t[i])}
    IN IF solid = {} THEN <<>> ELSE SubSeq(t, Min(solid), Max(solid))

\* the literal lit stands at position k of t
LitAt(t, k, lit) ==
    /\ k + Len(lit) - 1 <= Len(t)
    /\ \A x \in 1..Len(lit) : t[k + x - 1] = lit[x]

\* \s* followed by the literal, right after position j
AfterSpaces(t, j, lit) ==
    \E w \in 0..(Len(t) - j) :
        /\ \A x \in (j + 1)..(j + w) : IsSpace(t[x])
        /\ LitAt(t, j + w + 1, lit)

AllDigits(t, i, j) == \A x \in i..j : IsDigit(t[x])

\* re.search of a pattern "(group)\s*literal": the leftmost start with a match and,
\* from it, the match the greedy group prefers; ends[i] gives the ends of the
\* groups that start at i and match, each with its rank of preference
FirstMatch(t, ends) ==
    LET starts == {i \in 1..Len(t) : ends[i] # {}}
    IN IF starts = {} THEN Unset
       ELSE LET i == Min(starts)
                found == ends[i]
                best == CHOOSE e \in found : \A f \in found : f[1] <= e[1]
            IN SubSeq(t, i, best[2])

\* line 175: re.search(r"(\d+)\s*bd", details_text).group(1)
BedsOf(t) ==
    LET ends == [i \in 1..Len(t) |-> {<<j, j>> : j \in {j \in i..Len(t) :
                        AllDigits(t, i, j) /\ AfterSpaces(t, j, <<"b", "d">>)}}]
    IN FirstMatch(t, ends)

\* line 180: re.search(r"(\d+(?:\.\d+)?)\s*ba", details_text).group(1); the longest
\* run of digits is preferred, then the fractional part, the longer the better
BathsOf(t) ==
    LET ends == [i \in 1..Len(t) |->
          UNION {{<<a * (Len(t) + 1) + j, j>> : j \in {j \in a..Len(t) :
                      /\ \/ j = a
                         \/ /\ j >= a + 2
                            /\ t[a + 1] = "."
                            /\ AllDigits(t, a + 2, j)
                      /\ AfterSpaces(t, j, <<"b", "a">>)}} :
                 a \in {a \in i..Len(t) : AllDigits(t, i, a)}}]
    IN FirstMatch(t, ends)

\* line 185: re.search(r"([\d,]+)\s*sqft", details_text).group(1)
SqftGroup(t) ==
    LET ends == [i \in 1..Len(t) |-> {<<j, j>> : j \in {j \in i..Len(t) :
                        /\ \A x \in i..j : IsDigit(t[x]) \/ t[x] = ","
                        /\ AfterSpaces(t, j, <<"s", "q", "f", "t">>)}}]
    IN FirstMatch(t, ends)

\* line 187 without the replace
SqftOfWithCommas(t) == SqftGroup(t)

\* line 187: .replace(',', '')
SqftOf(t) == SelectSeq(SqftGroup(t), LAMBDA c : c # ",")

\* the numbers a details text is made of
Whole == {<<"5">> \o w : w \in UNION {[1..k -> DigitPool] : k \in 0..(MaxWhole - 1)}}
Fractional == Whole \cup {w \o <<".", "5">> : w \in Whole}
Group == {<<"0", "0", "0">>, <<"5", "0", "5">>}
GroupRows == UNION {[1..k -> Group] : k \in 0..MaxGroups}

RECURSIVE Grouped(_, _, _)
Grouped(head, groups, sep) ==
    IF groups = <<>> THEN head
    ELSE Grouped(head \o sep \o Head(groups), Tail(groups), sep)

RECURSIVE Joined(_)
Joined(parts) ==
    IF parts = <<>> THEN <<>>
    ELSE IF Len(parts) = 1 THEN parts[1]
    ELSE parts[1] \o <<",", " ">> \o Joined(Tail(parts))

\* the text "<n> bd, <m> ba, <k,kkk> sqft", each of its three parts there or not,
\* with or without white space around it
DetailsText(n, m, k, pad) ==
    LET parts == (IF n = Unset THEN <<>> ELSE <<n \o <<" ", "b", "d">>>>)
                 \o (IF m = Unset THEN <<>> ELSE <<m \o <<" ", "b", "a">>>>)
                 \o (IF k = Unset THEN <<>> ELSE <<k \o <<" ", "s", "q", "f", "t">>>>)
    IN (IF pad THEN <<" ">> ELSE <<>>) \o Joined(parts)
       \o (IF pad THEN <<" ">> ELSE <<>>)

DetailsInputs ==
    {[beds |-> n, baths |-> m, sqft |-> k[1], sqftDigits |-> k[2],
      raw |-> DetailsText(n, m, k[1], pad)] :
        n \in Whole \cup {Unset}, m \in Fractional \cup {Unset},
        k \in {<<Grouped(h, g, <<",">>), Grouped(h, g, <<>>)>> :
                    h \in Whole, g \in GroupRows} \cup {<<Unset, Unset>>},
        pad \in BOOLEAN}

\* a card's details element with one of these texts
DetailsInit ==
    /\ ScraperInit
    /\ MlsIdle
    /\ details \in DetailsInputs
    /\ parsed = Unparsed

\* lines 170-187: the three patterns are applied to the stripped text, each on its own
ParseDetails ==
    /\ ~parsed.done
    /\ LET details_text == Strip(details.raw)
       IN parsed' = [done |-> TRUE, beds |-> BedsOf(details_text),
                     baths |-> BathsOf(details_text), sqft |-> SqftOf(details_text)]
    /\ UNCHANGED <<details, zvars, mvars>>

NextDetails == ParseDetails

SpecDetails == DetailsInit /\ [][NextDetails]_vars

\* ---- mls.py: main and analyze_properties_with_huggingface ----
\* a price that is None
NoPrice == -1
Prices == {NoPrice} \cup (0..MaxPrice)

\* a property of the API: its listPrice, and whether extract_property_data can
\* process it (a property whose "property" or "address" is null raises, line 203)
Property == {[listPrice |-> NoPrice, ok |-> FALSE]}
                \cup {[listPrice |-> v, ok |-> TRUE] : v \in Prices}
PropertyLists == UNION {[1..k -> Property] : k \in 0..MaxProps}

\* a string option or environment variable: not given, empty, or a value
OptionValues == {"none", "empty", "key"}

\* the command lines: --metadata, --mls (not given, "", an id), --skip-ai, one of
\* --q/--city/--state/--county, --apikey, and HUGGINGFACE_KEY
Flags == [metadata : BOOLEAN, mls : {"none", "empty", "id"}, skip_ai : BOOLEAN,
          filter : BOOLEAN, apikey : OptionValues, env : OptionValues]

Truthy(v) == v \notin {"none", "empty"}

\* line 457: args.apikey or os.environ.get('HUGGINGFACE_KEY')
HuggingfaceKey(f) == IF Truthy(f.apikey) THEN f.apikey ELSE f.env

\* line 463: the key is checked only under this condition
KeyChecked(f) == ~f.skip_ai /\ ~f.metadata /\ f.mls = "none"

\* lines 499-500: only metadata was requested
OnlyMetadata(f) == f.mls = "none" /\ ~f.filter

\* lines 148-205: the records of the properties that did not raise
RECURSIVE extract_property_data(_)
extract_property_data(props) ==
    IF props = <<>> THEN <<>>
    ELSE (IF Head(props).ok THEN <<Head(props).listPrice>> ELSE <<>>)
         \o extract_property_data(Tail(props))

RECURSIVE Sum(_)
Sum(prices) == IF prices = <<>> THEN 0 ELSE Head(prices) + Sum(Tail(prices))

\* lines 224-225: sum(...) / len(...) if properties else 0; the division raises
\* ZeroDivisionError when no record has a price
AvgPrice(records) ==
    LET priced == SelectSeq(records, LAMBDA v : v # NoPrice)
    IN IF records # <<>>
       THEN IF Len(priced) = 0 THEN [raised |-> TRUE, v |-> 0]
            ELSE [raised |-> FALSE, v |-> Sum(priced) \div Len(priced)]
       ELSE [raised |-> FALSE, v |-> 0]

\* what requests.post and the response can be: the call raises, a status other
\* than 200, a body that is no JSON, a list without a first dict, a list, a dict or
\* another JSON value; text says whether the generated text is non-empty
HttpOutcomes ==
    {[kind |-> k, text |-> FALSE] :
        k \in {"exception", "non200", "bad_json", "bad_list", "list", "dict", "other"}}
    \cup {[kind |-> k, text |-> TRUE] : k \in {"list", "dict", "other"}}

\* lines 209-351: the payload of the call and the number of requests it sent
analyze_properties_with_huggingface(records, http) ==
    IF AvgPrice(records).raised
    THEN [status |-> "raised", body |-> "ZeroDivisionError", requests |-> 0]
    ELSE CASE http.kind \in {"exception", "bad_json", "bad_list"} ->
                  [status |-> "error", body |-> "message", requests |-> 1]
           [] http.kind = "non200" ->
                  [status |-> "error", body |-> "message", requests |-> 1]
           [] OTHER ->
                  [status |-> "success",
                   body |-> IF http.text THEN "analysis" ELSE "fallback",
                   requests |-> 1]

MlsInit ==
    /\ ScraperInit
    /\ DetailsIdle
    /\ mpc = "start"
    /\ flags \in Flags
    /\ properties = <<>>
    /\ processed = <<>>
    /\ hfCalls = 0
    /\ hfRequests = 0
    /\ hfResult = NoResult

\* lines 463-474
CheckKey ==
    /\ mpc = "start"
    /\ mpc' = IF KeyChecked(flags) /\ ~Truthy(HuggingfaceKey(flags))
              THEN "returned" ELSE "metadata"
    /\ UNCHANGED <<flags, properties, processed, hfCalls, hfRequests, hfResult,
                   zvars, dvars>>

\* lines 476-500
Metadata ==
    /\ mpc = "metadata"
    /\ \E saved \in BOOLEAN :
         mpc' = IF ~flags.metadata THEN "by_id"
                ELSE IF ~saved THEN "failed"
                ELSE IF OnlyMetadata(flags) THEN "returned"
                ELSE "by_id"
    /\ UNCHANGED <<flags, properties, processed, hfCalls, hfRequests, hfResult,
                   zvars, dvars>>

\* lines 502-523: "if args.mls" is false for the empty string too
FetchById ==
    /\ mpc = "by_id"
    /\ \E saved \in BOOLEAN :
         mpc' = IF ~Truthy(flags.mls) THEN "search"
                ELSE IF saved THEN "returned" ELSE "failed"
    /\ UNCHANGED <<flags, properties, processed, hfCalls, hfRequests, hfResult,
                   zvars, dvars>>

\* lines 525-566: get_properties raises or returns a list
Search ==
    /\ mpc = "search"
    /\ \/ /\ mpc' = "failed"
          /\ UNCHANGED properties
       \/ \E found \in PropertyLists :
            /\ properties' = found
            /\ mpc' = IF found = <<>> THEN "returned" ELSE "extract"
    /\ UNCHANGED <<flags, processed, hfCalls, hfRequests, hfResult, zvars, dvars>>

\* lines 568-569
Extract ==
    /\ mpc = "extract"
    /\ processed' = extract_property_data(properties)
    /\ mpc' = "stats"
    /\ UNCHANGED <<flags, properties, hfCalls, hfRequests, hfResult, zvars, dvars>>

\* lines 571-626: the statistics of main have their own try; the file is written,
\* and --skip-ai returns
StatsAndSave ==
    /\ mpc = "stats"
    /\ \E saved \in BOOLEAN :
         mpc' = IF ~saved THEN "failed"
                ELSE IF flags.skip_ai THEN "returned" ELSE "analyze"
    /\ UNCHANGED <<flags, properties, processed, hfCalls, hfRequests, hfResult,
                   zvars, dvars>>

\* line 631; what the call raises is caught at line 652
Analyze ==
    /\ mpc = "analyze"
    /\ \E http \in HttpOutcomes :
         LET result == analyze_properties_with_huggingface(processed, http)
         IN /\ hfResult' = [status |-> result.status, body |-> result.body]
            /\ hfRequests' = hfRequests + result.requests
            /\ mpc' = IF result.status = "raised" THEN "failed" ELSE "report"
    /\ hfCalls' = hfCalls + 1
    /\ UNCHANGED <<flags, properties, processed, zvars, dvars>>

\* lines 633-650
Report ==
    /\ mpc = "report"
    /\ \E saved \in BOOLEAN : mpc' = IF saved THEN "returned" ELSE "failed"
    /\ UNCHANGED <<flags, properties, processed, hfCalls, hfRequests, hfResult,
                   zvars, dvars>>

NextMls ==
    \/ CheckKey
    \/ Metadata
    \/ FetchById
    \/ Search
    \/ Extract
    \/ StatsAndSave
    \/ Analyze
    \/ Report

SpecMls == MlsInit /\ [][NextMls]_vars

Next ==
    \/ Call
    \/ Begin
    \/ Navigate
    \/ HandlePopups
    \/ WaitForListings
    \/ ParsePage
    \/ Advance
    \/ Return
    \/ ExceptHandler
    \/ Finally
    \/ Extend
    \/ Export

Spec == Init /\ [][Next]_vars

\* the steps of main and of search_fsbo_listings are sequential code: each one is
\* taken once it is reached (every wait of the code is bounded)
LiveSpec == Spec /\ WF_vars(Next)

TypeOK ==
    /\ driver \in {"none", "active", "quit"}
    /\ pc \in {"idle", "start", "get", "popups", "wait", "parse", "advance",
               "return", "except", "finally", "done", "exit"}
    /\ page \in 0..MaxPages
    /\ max_pages \in 0..MaxPages
    /\ run \in 0..NumLocations
    /\ Len(listings) = created

\* ---- positions ----
InRun == {"start", "get", "popups", "wait", "parse", "advance", "return", "except",
          "finally"}
InLoop == {"wait", "parse", "advance"}
AfterLoop == {"return", "finally", "done", "idle", "exit"}
Returned == {"done", "idle", "exit"}

\* C1: in every call of search_fsbo_listings, however it ends, close_browser is
\* invoked exactly once: not while the call is still working, once when the call
\* has returned, and no browser call of that call comes after it.
C1_CloseExactlyOnce ==
    /\ pc \in InRun => closeCalls = 0
    /\ (pc \in Returned /\ run > 0) => closeCalls = 1
    /\ actsAfterClose = 0

\* a call that reached the page loop, failed with an exception and was closed
C1_Witness ==
    /\ pc = "done"
    /\ err
    /\ parses >= 1
    /\ closeCalls = 1
    /\ lastCall.op = "quit"

\* C2: when a call ends through an exception, the value it returns holds every record
\* created so far by the page extractor, in the order of creation.
C2_PartialResultsKept ==
    (err /\ pc \in {"finally", "done"}) =>
        /\ Len(ret) = created
        /\ \A i \in 1..Len(ret) : ret[i].id = i

\* records of two pages were extracted, then the wait for the next page failed
C2_Witness ==
    /\ pc = "done"
    /\ err
    /\ lastWait = "error"
    /\ Len(ret) >= 2
    /\ ret[1].page = 1

\* C3: with max_pages = N >= 1 the page number stays within 1..N inside the loop, an
\* advance is attempted only on a page below N, at most N-1 advances are made, and a
\* call that ends without exception and without break has waited for and parsed
\* exactly N pages.
C3_PageWithinMax ==
    max_pages >= 1 =>
        /\ pc \in InLoop => page \in 1..max_pages
        /\ page <= max_pages
        /\ pc = "advance" => page < max_pages
        /\ advances <= max_pages - 1
        /\ (pc \in {"finally", "done"} /\ ~err /\ brokeOn = "none") =>
               (waits = max_pages /\ parses = max_pages)

\* a call over the largest number of pages, every advance successful
C3_Witness ==
    /\ pc = "done"
    /\ ~err
    /\ brokeOn = "none"
    /\ max_pages = MaxPages
    /\ parses = MaxPages
    /\ advances = MaxPages - 1

\* C4: when go_to_next_page finds no next-page control on page P < max_pages, the call
\* leaves the loop at P: P pages were waited for and parsed and no more, no exception
\* is raised, and the returned list ends with the records of pages 1..P of this call.
C4_StopsWithoutNextPage ==
    brokeOn # "none" =>
        /\ pc \in AfterLoop
        /\ ~err
        /\ page < max_pages
        /\ waits = page /\ parses = page /\ advances = page
        /\ pc \in Returned =>
              /\ Len(ret) = created
              /\ \A i \in 1..Len(ret) :
                    i > runStartLen => (ret[i].run = run /\ ret[i].page \in 1..page)

\* the labeled control was missing, the fallback found nothing, the call returned the
\* records of page 1
C4_Witness ==
    /\ brokeOn = "missing"
    /\ pc = "done"
    /\ page = 1
    /\ max_pages = 2
    /\ Len(ret) >= 1

\* browser calls that use the session
UseOps == {"get", "popups", "wait", "page_source", "next"}

\* C5: each call of search_fsbo_listings navigates with a browser session that this
\* same call acquired and that has not been released.
C5_OwnSessionPerRun ==
    lastCall.op = "get" => (lastCall.on = "active" /\ sessionRun = run)

\* C6: the session only moves uninitialized -> active -> closed, and every
\* navigation, popup sweep, load wait, page-source read and page advance is issued on
\* an active session.
C6_UseOnlyWhileActive ==
    [][/\ driver' # driver =>
             <<driver, driver'>> \in {<<"none", "active">>, <<"active", "quit">>}
       /\ lastCall'.op \in UseOps => lastCall'.on = "active"]_vars

\* C7: close_browser on a session that was never started or was already closed does
\* nothing: driver.quit is not invoked.
C7_CloseIdempotent ==
    [][(pc = "finally" /\ driver # "active") =>
           (quitCalls' = quitCalls /\ driver' = driver)]_vars

\* C8: every card of a parsed page that carries an FSBO signal, has an extractable
\* field and does not fail gives its record, whatever happens to the other cards of
\* the page.
C8_CardFailureIsolated ==
    lastPage.emitted = lastPage.eligible

\* C9: every record of the listings, of a returned list and of all_listings comes
\* from a card with the badge or the matching text.
C9_OnlyFsboRecords ==
    /\ \A i \in 1..Len(listings) : listings[i].fsbo
    /\ \A i \in 1..Len(ret) : ret[i].fsbo
    /\ \A i \in 1..Len(all_listings) : all_listings[i].fsbo

\* a page with a card without signal and an FSBO card was parsed: one record only
C9_Witness ==
    /\ pc \in {"advance", "return"}
    /\ lastPage.plain >= 1
    /\ lastPage.emitted = 1
    /\ Len(listings) >= 1

\* C10: a load wait that times out on page P is followed by the parse of page P, and
\* that parse is followed by the usual decision: advance if P < max_pages, else leave
\* the loop normally; the timeout does not lead to the except clause.
C10_TimeoutNotFatal ==
    [][/\ (pc = "wait" /\ lastWait' = "timeout") =>
             (pc' = "parse" /\ page' = page /\ ~err')
       /\ (pc = "parse" /\ lastWait = "timeout") =>
             /\ parses' = parses + 1
             /\ pc' = IF page < max_pages THEN "advance" ELSE "return"]_vars

\* the wait of page 1 timed out, the page was parsed and gave a record, and the run
\* is about to advance
C10_Witness ==
    /\ pc = "advance"
    /\ page = 1
    /\ lastWait = "timeout"
    /\ parses = 1
    /\ lastPage.emitted >= 1

\* C11: when main has harvested all its locations, every record the page extractor
\* created is in all_listings exactly once.
C11_ExportedOnce ==
    pc = "exit" =>
        \A k \in 1..created :
            Cardinality({i \in 1..Len(all_listings) : all_listings[i].id = k}) = 1

\* C12: self.listings only grows at its end (what it held stays a prefix), its
\* records stand in the order of their creation, and the records of a page come
\* before those of the next page of the same call.
C12_AppendOnly ==
    [][/\ Len(listings') >= Len(listings)
       /\ SubSeq(listings', 1, Len(listings)) = listings
       /\ \A i \in 1..Len(listings') : listings'[i].id = i
       /\ \A i, j \in 1..Len(listings') :
             (i < j /\ listings'[i].run = listings'[j].run) =>
                 listings'[i].page <= listings'[j].page]_vars

\* records of two pages are in the listings and a later call has begun
C12_Witness ==
    /\ Len(listings) >= 2
    /\ listings[1].page = 1
    /\ listings[Len(listings)].page = 2
    /\ run > listings[1].run

\* C13: every call of search_fsbo_listings returns: from its first step it reaches
\* the point where it has returned a list, close_browser has run once and the
\* session, if one was started, is not active any more.
C13_RunEnds ==
    \A r \in 1..NumLocations :
        (pc = "start" /\ run = r) ~>
            (pc = "done" /\ run = r /\ closeCalls = 1 /\ driver # "active")

\* a call that failed after a break-free loop over two pages has returned
C13_Witness ==
    /\ pc = "done"
    /\ err
    /\ advances >= 1
    /\ driver = "quit"
    /\ closeCalls = 1

\* C16 as stated: the fallback is tried whenever the labeled control gives no
\* eligible control (missing, or present but not enabled), and the call leaves the
\* loop for lack of a next page only if neither strategy finds an eligible control.
C16_FallbackWhenNotEligible ==
    /\ lastAdvance.primary \in {"missing", "disabled"} => lastAdvance.tried
    /\ lastAdvance.result = "false" => (lastAdvance.tried /\ ~lastAdvance.eligible)

\* C16 amended: the labeled control is looked up first and the fallback is tried
\* exactly when that control is missing. The result is false, and the loop is left,
\* when the control is present but not enabled, or when it is missing and the
\* fallback finds no successor of an active item or fails; it is true when the
\* control is enabled and clicked, or when it is missing and the fallback clicks the
\* successor of an active item.
C16_FallbackOnlyWhenMissing ==
    lastAdvance.primary # "none" =>
        /\ lastAdvance.tried <=> lastAdvance.primary = "missing"
        /\ lastAdvance.result = "false" <=>
              \/ lastAdvance.primary = "disabled"
              \/ /\ lastAdvance.primary = "missing"
                 /\ ~lastAdvance.eligible \/ lastAdvance.fb # "ok"
        /\ lastAdvance.result = "true" <=>
              \/ lastAdvance.primary = "enabled"
              \/ /\ lastAdvance.primary = "missing"
                 /\ lastAdvance.eligible /\ lastAdvance.fb = "ok"
        /\ lastAdvance.result = "false" => (pc = "return" /\ brokeOn # "none")

\* the labeled control was present but not enabled while an active pagination item
\* had a successor: the fallback was not tried and the loop was left
C16_Witness ==
    /\ lastAdvance.primary = "disabled"
    /\ lastAdvance.eligible
    /\ lastAdvance.fb = "ok"
    /\ ~lastAdvance.tried
    /\ pc = "return"

\* C17: handle_popups goes through its four selectors in their order whatever fails
\* on the way, and the call goes on with the page loop, never with the except clause.
C17_PopupSweepNeverRaises ==
    [][pc = "popups" =>
          /\ popupVisited' = <<1, 2, 3, 4>>
          /\ pc' \in {"wait", "return"}
          /\ ~err']_vars

\* the sweep was made and the run went on to the wait of page 1
C17_Witness ==
    /\ lastCall.op = "popups"
    /\ pc = "wait"
    /\ Len(popupVisited) = NumSelectors

\* C18: the cards come from the primary selector when it finds any and from the
\* alternate selector exactly when it finds none; a page on which no card is found
\* leaves the listings as they were, raises nothing, and the call goes on with the
\* usual decision after a page.
C18_SelectorFallback ==
    [][pc = "parse" =>
          /\ lastPage'.src =>
                lastPage'.from = IF lastPage'.primaryEmpty THEN "alternate" ELSE "primary"
          /\ lastPage'.nCards = 0 =>
                /\ listings' = listings
                /\ ~err'
                /\ pc' = IF page < max_pages THEN "advance" ELSE "return"]_vars

\* page 2 gave no card with either selector, after page 1 had given records
C18_Witness ==
    /\ lastCall.op = "page_source"
    /\ page = 2
    /\ lastPage.src
    /\ lastPage.primaryEmpty
    /\ lastPage.from = "alternate"
    /\ lastPage.nCards = 0
    /\ Len(listings) >= 1

\* C19 as stated: every call that issued its first navigation has made exactly one
\* popup sweep by the time it returns.
C19_SweepOncePerNavigation ==
    (navigated # "no" /\ pc \in {"finally", "done"}) => popupSweeps = 1

\* C19 amended: a call makes at most one popup sweep; it makes it when driver.get
\* has returned, before the first load wait and the first extraction, and not again
\* after a page advance; a call whose driver.get raised makes none.
C19_SweepOnceAfterLoad ==
    /\ popupSweeps <= 1
    /\ (navigated = "ok" /\ pc # "popups") => popupSweeps = 1
    /\ navigated # "ok" => popupSweeps = 0
    /\ pc = "popups" => (popupSweeps = 0 /\ waits = 0 /\ parses = 0 /\ advances = 0)
    /\ (waits > 0 \/ parses > 0 \/ advances > 0) => popupSweeps = 1

\* a call that advanced to page 2 and returned made one sweep
C19_Witness ==
    /\ pc = "done"
    /\ navigated = "ok"
    /\ advances >= 1
    /\ page = 2
    /\ popupSweeps = 1

\* C15: from a text "<n> bd, <m> ba, <k,kkk> sqft" the parser takes beds = n,
\* baths = m and sqft = the digits of the square footage without its commas; a part
\* that is not in the text leaves its field unset and does not change the others.
C15_DetailsFields ==
    parsed.done =>
        /\ parsed.beds = details.beds
        /\ parsed.baths = details.baths
        /\ parsed.sqft = details.sqftDigits

\* a text with two-digit beds, fractional baths and a square footage with a comma
C15_Witness ==
    /\ parsed.done
    /\ Len(details.beds) = 2
    /\ Len(details.baths) = 3
    /\ Len(details.sqft) = 5
    /\ parsed.sqft = details.sqftDigits
    /\ Len(parsed.sqft) = 4

\* C14: the analysis call sends at most one request, does not raise, and returns
\* a payload with status "success" and a text or status "error" and a message.
C14_AnalysisTotal ==
    hfCalls > 0 =>
        /\ hfRequests <= 1
        /\ hfResult.status \in {"success", "error"}
        /\ hfResult.status = "success" => hfResult.body \in {"analysis", "fallback"}
        /\ hfResult.status = "error" => hfResult.body = "message"

\* C20: the analysis is never called when neither --apikey nor HUGGINGFACE_KEY
\* supplies a key.
C20_NoAnalysisWithoutKey ==
    hfCalls > 0 => Truthy(HuggingfaceKey(flags))

====
